---- MODULE Spec2Model ----
(***************************************************************************)
(* A model of libtesla's tesla_lite.hpp: the 4-bit RGBA renderer, the      *)
(* glyph cache, the Screen (Gui) focus/update logic and the navigation     *)
(* stack (Overlay) with its frame loop and the tsl::loop driver.           *)
(***************************************************************************)
EXTENDS Integers, Sequences, FiniteSets, TLC

VARIABLES
    currFb,        \* Renderer::currFb: the surface, index y*FramebufferWidth+x -> Color
    oobWrite,      \* TRUE once a store went to an index outside the surface
    prevFb,        \* the surface as it was before the last renderer call
    lastCall,      \* the last renderer call and its arguments
    nCalls,        \* number of renderer calls made so far
    m_guiStack,    \* Overlay::m_guiStack, bottom first
    guiLife,       \* per Screen: "free" (not yet created), "alive", "destroyed"
                   \* or "destroyed twice"
    m_root,        \* per Screen: Gui::m_root, "nullptr" or "frame" (an OverlayFrame)
    m_shouldClose, \* Overlay::m_shouldClose
    s_instance,    \* Overlay::s_instance: "overlay" or "nullptr"
    pc,            \* where tsl::loop / Overlay::loop stands
    gui,           \* Overlay::loop's local gui (0: none)
    frameSteps,    \* the steps the current Overlay::loop call has performed
    createUICalls, \* per Screen: calls of createUI()
    layoutCalls,   \* per Screen: calls of m_root->layout()
    updateCalls,   \* per Screen: calls of update()
    updateGuiCalls,\* per Screen: calls of updateGui()
    lastNav,       \* the last pushGui/changeGui call, with the stack and lives before it
    uaf,           \* TRUE once library code has used a destroyed Screen
    nFrames,       \* iterations of tsl::loop's while loop started
    closeFrame,    \* the iteration in which close() was first called (0: not called)
    m_items,       \* List::m_items of the Screen's list, in insertion order
    m_focused,     \* per Element: Element::m_focused
    m_focusedElement, \* Gui::m_focusedElement (0: nullptr)
    lastFocus,     \* the last Gui::requestFocus call and the focus pointer before it
    nFocusCalls,   \* number of Gui::requestFocus calls made so far
    m_contentElement, \* OverlayFrame::m_contentElement of the Screen's frame (0: nullptr)
    m_scrollOffset,\* List::m_scrollOffset of the Screen's list
    itemHeight,    \* per item: the height its getHeight() declares
    m_isItem,      \* per Element: Element::m_isItem
    bounds,        \* per Element: m_x, m_y, m_width, m_height
    drawLog,       \* the renderer and item draw calls of the last Gui::draw, in order
    treePc,        \* where the Screen stands: "createUI", "built", "drawn", "destroyed",
                   \* or "crashed" / "hung" once invalidate() recursed without end
    layoutArea,    \* cfg::FramebufferWidth x cfg::FramebufferHeight as layout sees them
    elemLife,      \* per Element: "free", "alive", "destroyed" or "destroyed twice"
    m_parent,      \* per Element: Element::m_parent (0: nullptr)
    everInTree,    \* the Elements that have been attached under the Screen's frame
    lastInvalidate,\* the last invalidate() call: the Element and those it reached
    nSetBoundaries,\* number of Element::setBoundaries calls the application has made
    nFrameCalls,   \* number of Element::frame calls the application has made
    s_glyphCache,  \* FontManager::s_glyphCache: key -> Glyph
    glyphLog,      \* every (character, monospace, fontSize, entry) a lookup has returned
    lastGlyph,     \* the last getOrCreateGlyph call and the entry it returned
    nLookups,      \* number of getOrCreateGlyph calls made so far
    s_initialized, \* FontManager::s_initialized
    fontLoadTried, \* TRUE once FontManager::initialize() has been called
    unloadedFaceUsed, \* TRUE once the font engine was called on the face while unloaded
    textArgs,      \* the text, style, size and origin the text calls are made with
    measured,      \* what getTextDimensions returned for textArgs
    drawn          \* what drawString did for textArgs: its cursor's reach on each line

renderVars == <<currFb, oobWrite, prevFb, lastCall, nCalls>>
navVars == <<m_guiStack, guiLife, m_root, m_shouldClose, s_instance, pc, gui,
             frameSteps, createUICalls, layoutCalls, updateCalls, updateGuiCalls,
             lastNav, uaf, nFrames, closeFrame>>
treeVars == <<m_contentElement, m_scrollOffset, itemHeight, m_isItem, bounds, drawLog,
              treePc, layoutArea, elemLife, m_parent, everInTree, lastInvalidate,
              nSetBoundaries, nFrameCalls>>
focusVars == <<m_items, m_focused, m_focusedElement, lastFocus, nFocusCalls, treeVars>>
glyphVars == <<s_glyphCache, glyphLog, lastGlyph, nLookups, s_initialized,
               fontLoadTried, unloadedFaceUsed, textArgs, measured, drawn>>
vars == <<renderVars, navVars, focusVars, glyphVars>>

----------------------------------------------------------------------------
(* Bounds of the model *)

\* cfg::FramebufferWidth / cfg::FramebufferHeight are run-time globals (u16)
FramebufferWidth == 2
FramebufferHeight == 2
\* number of renderer calls explored
MaxCalls == 2
\* number of Screens the program creates
MaxScreens == 3
\* iterations of the driver's while loop
MaxFrames == 2
\* items added to the Screen's list
MaxItems == 3
\* number of Gui::requestFocus calls explored
MaxFocusCalls == 3
\* number of getOrCreateGlyph calls explored
MaxLookups == 3
\* bytes in a text drawn or measured
MaxTextLen == 3
\* number of calls the application makes on a Screen's tree: Gui::requestFocus,
\* Element::setBoundaries and Element::frame together
MaxTreeFocusCalls == 1
\* number of Elements the application has given a parent with Element::setParent
MaxParented == 2

\* largest s32
S32Max == 2147483647

\* cfg::LayerMaxWidth, cfg::LayerMaxHeight: the logical layer
LayerMaxWidth == 1280
LayerMaxHeight == 720

----------------------------------------------------------------------------
(* Color: four 4-bit channels *)

\* Color(u8 r, u8 g, u8 b, u8 a): each argument is stored in a 4-bit field
Color(r, g, b, a) == [r |-> r % 16, g |-> g % 16, b |-> b % 16, a |-> a % 16]

ColorFrameBackground == Color(0, 0, 0, 13)
ColorTransparent == Color(0, 0, 0, 0)
ColorHighlight == Color(0, 15, 13, 15)
ColorFrame == Color(7, 7, 7, 7)
ColorText == Color(15, 15, 15, 15)
ColorDescription == Color(10, 10, 10, 15)

\* x >> 4 on a non-negative int
Shr4(v) == v \div 16

----------------------------------------------------------------------------
(* Renderer *)

\* the surface and the out-of-range flag, as one value the primitives transform
Surface(fb, oob) == [fb |-> fb, oob |-> oob]

\* fb[off] = color; a store outside the surface's cells is recorded, not performed
Store(st, off, color) ==
    IF off \in DOMAIN st.fb
    THEN [st EXCEPT !.fb[off] = color]
    ELSE [st EXCEPT !.oob = TRUE]

\* (u32)v >= limit for an int v given as s32 and a u16 limit: a negative v
\* converts to a value of at least 2^31
U32GE(v, limit) == v < 0 \/ v >= limit

\* (u32)(y * FramebufferWidth + x) as an index; a wrapped (negative) value is
\* far beyond the surface
Offset(x, y) == y * FramebufferWidth + x

setPixel(st, x, y, color) ==
    IF U32GE(x, FramebufferWidth) \/ U32GE(y, FramebufferHeight)
    THEN st
    ELSE Store(st, Offset(x, y), color)

\* setPixelBlend with the bounds test written with > for >=
setPixelBlendLooseBounds(st, x, y, color) ==
    IF x < 0 \/ x > FramebufferWidth \/ y < 0 \/ y > FramebufferHeight \/ color.a = 0
    THEN st
    ELSE LET off == Offset(x, y)
             src == IF off \in DOMAIN st.fb THEN st.fb[off] ELSE ColorTransparent
             inv_a == 15 - color.a
         IN  Store(st, off,
                   Color(Shr4(src.r * inv_a + color.r * color.a),
                         Shr4(src.g * inv_a + color.g * color.a),
                         Shr4(src.b * inv_a + color.b * color.a),
                         src.a))

\* setPixelBlend without the test for a transparent source
setPixelBlendNoAlphaTest(st, x, y, color) ==
    IF U32GE(x, FramebufferWidth) \/ U32GE(y, FramebufferHeight)
    THEN st
    ELSE LET off == Offset(x, y)
             src == st.fb[off]
             inv_a == 15 - color.a
         IN  Store(st, off,
                   Color(Shr4(src.r * inv_a + color.r * color.a),
                         Shr4(src.g * inv_a + color.g * color.a),
                         Shr4(src.b * inv_a + color.b * color.a),
                         src.a))

setPixelBlend(st, x, y, color) ==
    IF U32GE(x, FramebufferWidth) \/ U32GE(y, FramebufferHeight) \/ color.a = 0
    THEN st
    ELSE LET off == Offset(x, y)
             src == st.fb[off]
             inv_a == 15 - color.a
         IN  Store(st, off,
                   Color(Shr4(src.r * inv_a + color.r * color.a),
                         Shr4(src.g * inv_a + color.g * color.a),
                         Shr4(src.b * inv_a + color.b * color.a),
                         src.a))

Max2(a, b) == IF a > b THEN a ELSE b
Min2(a, b) == IF a < b THEN a ELSE b

\* the values x + w can take as an s32: the sum when it fits; on signed overflow
\* (undefined behaviour) the wrapped value, or any other s32 the build yields
S32AddOutcomes(a, b) ==
    IF a > 0 /\ b > S32Max - a
    THEN {(a - S32Max - 1) + (b - S32Max - 1), S32Max}
    ELSE IF a < 0 /\ b < (-S32Max - 1) - a
    THEN {(a + S32Max + 1) + (b + S32Max + 1), -S32Max - 1}
    ELSE {a + b}

\* the inner loop of drawRect: for (xi = ...; xi < x_end; xi++) setPixelBlend(xi, yi, color)
RECURSIVE drawRectRow(_, _, _, _, _)
drawRectRow(st, xi, yi, x_end, color) ==
    IF xi < x_end
    THEN drawRectRow(setPixelBlend(st, xi, yi, color), xi + 1, yi, x_end, color)
    ELSE st

\* the outer loop of drawRect: for (yi = ...; yi < y_end; yi++)
RECURSIVE drawRectRows(_, _, _, _, _, _)
drawRectRows(st, yi, x_start, x_end, y_end, color) ==
    IF yi < y_end
    THEN drawRectRows(drawRectRow(st, x_start, yi, x_end, color),
                      yi + 1, x_start, x_end, y_end, color)
    ELSE st

\* drawRect with xw, yh the values of x + w and y + h
drawRectSums(st, x, y, xw, yh, color) ==
    LET x_start == Max2(0, x)
        y_start == Max2(0, y)
        x_end == Min2(FramebufferWidth, xw)
        y_end == Min2(FramebufferHeight, yh)
    IN  drawRectRows(st, y_start, x_start, x_end, y_end, color)

\* drawRect when neither sum overflows
drawRect(st, x, y, w, h, color) == drawRectSums(st, x, y, x + w, y + h, color)

----------------------------------------------------------------------------
(* The renderer driven by arbitrary calls *)

\* surfaces the host may hand over: every cell holds whatever an earlier frame left
HostColors == {ColorText, ColorFrame}
HostSurfaces == {[i \in 0..(FramebufferWidth * FramebufferHeight - 1) |-> c] : c \in HostColors}

\* pixel coordinates tried: negative, inside, on the far edge, just outside, far outside
XArgs == {-1, 0, FramebufferWidth - 1, FramebufferWidth, S32Max}
YArgs == {-1, 0, FramebufferHeight - 1, FramebufferHeight, S32Max}
\* rectangles tried: origins around the surface; sizes negative, one pixel, and so
\* large that the rectangle spans the surface and x + w overflows
RectXArgs == {-1, 0, FramebufferWidth - 1, FramebufferWidth}
RectYArgs == {-1, 0, FramebufferHeight - 1, FramebufferHeight}
SizeArgs == {-1, 1, S32Max}
SrcColors == {ColorTransparent, ColorFrameBackground, ColorHighlight}
RectColors == {ColorFrameBackground, ColorHighlight}

\* the cells of the surface that lie in the rectangle [x, x+w) x [y, y+h)
RectCells(x, y, w, h) ==
    {i \in 0..(FramebufferWidth * FramebufferHeight - 1) :
        LET px == i % FramebufferWidth
            py == i \div FramebufferWidth
        IN  px >= x /\ px - x < w /\ py >= y /\ py - y < h}

\* the cell of the surface at (x, y), if there is one
PixelCells(x, y) == RectCells(x, y, 1, 1)

NoCall == [op |-> "none", color |-> ColorTransparent, cells |-> {}]


----------------------------------------------------------------------------
(* Navigation stack (Overlay) *)

Screens == 1..MaxScreens

\* the Overlay's stack with the lives of the Screens, as one value the
\* navigation operations transform
Overlay(stack, life) == [stack |-> stack, life |-> life]

\* m_guiStack.top()
Top(stack) == stack[Len(stack)]

\* m_guiStack.pop()
Pop(stack) == SubSeq(stack, 1, Len(stack) - 1)

\* delete on a Gui*; a second delete of the same Screen is told apart
DeleteGui(ov, g) ==
    [ov EXCEPT !.life[g] = IF @ = "alive" THEN "destroyed" ELSE "destroyed twice"]

\* pushGui that puts the new Screen at the bottom of the stack
pushGuiAtBottom(ov, g) == [ov EXCEPT !.stack = <<g>> \o @]

pushGui(ov, g) == [ov EXCEPT !.stack = Append(@, g)]

\* changeGui that deletes the top Screen but forgets to pop it
changeGuiNoPop(ov, g) ==
    LET deleted == IF ov.stack # <<>> THEN DeleteGui(ov, Top(ov.stack)) ELSE ov
    IN  [deleted EXCEPT !.stack = Append(@, g)]

\* changeGui that goes back when a Screen lies beneath the top: it deletes and
\* pops the top and drops the new Screen
changeGuiGoesBack(ov, g) ==
    IF Len(ov.stack) >= 2
    THEN [DeleteGui(ov, Top(ov.stack)) EXCEPT !.stack = Pop(@)]
    ELSE [(IF ov.stack # <<>>
           THEN [DeleteGui(ov, Top(ov.stack)) EXCEPT !.stack = Pop(@)]
           ELSE ov) EXCEPT !.stack = Append(@, g)]

changeGui(ov, g) ==
    LET popped == IF ov.stack # <<>>
                  THEN [DeleteGui(ov, Top(ov.stack)) EXCEPT !.stack = Pop(@)]
                  ELSE ov
    IN  [popped EXCEPT !.stack = Append(@, g)]

\* getCurrentGui(): 0 stands for nullptr
getCurrentGui(stack) == IF stack = <<>> THEN 0 ELSE Top(stack)

\* the Screens not created yet
FreeScreens(life) == {g \in Screens : life[g] = "free"}

\* new T(...): the next Screen comes to life
NewGui(life) == CHOOSE g \in FreeScreens(life) : \A h \in FreeScreens(life) : g <= h

\* swapTo<T>(): T* newGui = new T(...); Overlay::get()->changeGui(newGui)
swapTo(ov) ==
    LET newGui == NewGui(ov.life)
    IN  changeGui([ov EXCEPT !.life[newGui] = "alive"], newGui)

\* pushGui(new T(...))
pushNew(ov) ==
    LET newGui == NewGui(ov.life)
    IN  pushGui([ov EXCEPT !.life[newGui] = "alive"], newGui)

----------------------------------------------------------------------------
(* Hooks: createUI, update and handleInput are the application's code. A hook
   may call into the Overlay: pushGui with a new Screen, swapTo, or close. *)

HookCalls == {"none", "pushGui", "swapTo", "close"}

NoNav == [op |-> "none", arg |-> 0, stack |-> <<>>, life |-> [g \in Screens |-> "free"]]

\* the navigation state a hook works on: the Overlay, its close flag and the
\* record of the last navigation call
NavState(ov, close, nav) == [ov |-> ov, close |-> close, nav |-> nav]

\* what the hook's call does; a hook that has no Screen left to create calls nothing
HookCall(ns, call) ==
    IF call = "close"
    THEN [ns EXCEPT !.close = TRUE]
    ELSE IF call \in {"pushGui", "swapTo"} /\ FreeScreens(ns.ov.life) # {}
    THEN LET after == IF call = "pushGui" THEN pushNew(ns.ov) ELSE swapTo(ns.ov)
         IN  [ns EXCEPT !.ov = after,
                        !.nav = [op |-> call, arg |-> Top(after.stack),
                                 stack |-> ns.ov.stack, life |-> ns.ov.life]]
    ELSE ns

----------------------------------------------------------------------------
(* Screen (Gui) *)

\* what createUI() may return: no root, or an OverlayFrame("", "") without content
CreateUIResults == {"nullptr", "frame"}

\* the state Gui::updateGui works on: the navigation state its hooks may change,
\* the Screens' roots, the call counters, and whether a destroyed Screen was used
\* (uaf) and whether that use faulted (fault)
GuiState(ns, root, cu, lay, upd, upg, u) ==
    [ns |-> ns, root |-> root, cu |-> cu, lay |-> lay, upd |-> upd, upg |-> upg,
     uaf |-> u, fault |-> FALSE]

\* the first half of updateGui on Screen g: if (!m_root) { m_root = createUI();
\* if (m_root) m_root->layout(...); }. createUI returns ret and calls h1. Storing
\* into m_root of a Screen the hook has destroyed is undefined: it faults
\* (ubStore) or lands in the freed object, and layout() runs on the root read
\* back from it.
updateGuiBuild(gs, g, ret, h1, ubStore) ==
    IF gs.root[g] = "nullptr"
    THEN LET made == [gs EXCEPT !.cu[g] = @ + 1, !.ns = HookCall(@, h1)]
             dead == made.ns.ov.life[g] = "destroyed"
         IN  IF dead /\ ubStore
             THEN [made EXCEPT !.uaf = TRUE, !.fault = TRUE]
             ELSE [made EXCEPT !.uaf = @ \/ dead,
                               !.root[g] = ret,
                               !.lay[g] = IF ret # "nullptr" THEN @ + 1 ELSE @]
    ELSE gs

\* the second half of updateGui: update(), which calls h2. The virtual call on a
\* destroyed Screen is undefined: it faults (ubCall) or runs the stale object's
\* hook, whatever the store before it did.
updateGuiHook(gs, g, h2, ubCall) ==
    IF gs.fault
    THEN gs
    ELSE LET dead == gs.ns.ov.life[g] = "destroyed"
         IN  IF dead /\ ubCall
             THEN [gs EXCEPT !.uaf = TRUE, !.fault = TRUE]
             ELSE [gs EXCEPT !.uaf = @ \/ dead,
                             !.upd[g] = @ + 1,
                             !.ns = HookCall(@, h2)]

updateGui(gs, g, ret, h1, h2, ubStore, ubCall) ==
    updateGuiHook(updateGuiBuild([gs EXCEPT !.upg[g] = @ + 1], g, ret, h1, ubStore),
                  g, h2, ubCall)

\* OverlayFrame::draw for OverlayFrame("", "") without content: the background
\* rectangle; drawString of an empty text draws nothing
OverlayFrameDraw(st) ==
    drawRect(st, 0, 0, FramebufferWidth, FramebufferHeight, ColorFrameBackground)

\* Gui::draw: if (m_root) m_root->draw(renderer)
GuiDraw(st, root) == IF root = "nullptr" THEN st ELSE OverlayFrameDraw(st)

----------------------------------------------------------------------------
(* Elements of one Screen's tree and the Screen's focus *)

\* the tree createUI builds: an OverlayFrame (1) whose content is a List (2);
\* the items addItem appends to the list are 3, 4, ...
FrameElement == 1
ListElement == 2
Elements == 1..(ListElement + MaxItems)

\* the Elements of the Screen's tree
TreeElements(items) == {FrameElement, ListElement} \cup {items[i] : i \in 1..Len(items)}

\* List::addItem
addItem(items, item) == Append(items, item)

FocusDirections == {"None", "Up", "Down", "Left", "Right"}

\* the focus flags of the Elements and the Screen's focus pointer, as one value
FocusState(focused, focusedElement) ==
    [m_focused |-> focused, m_focusedElement |-> focusedElement]

\* Element::setFocused
setFocused(fs, element, focused) == [fs EXCEPT !.m_focused[element] = focused]

\* requestFocus that does not unset the previously focused Element
requestFocusKeepsOld(fs, element, direction) ==
    LET moved == [fs EXCEPT !.m_focusedElement = element]
    IN  IF moved.m_focusedElement # 0
        THEN setFocused(moved, moved.m_focusedElement, TRUE)
        ELSE moved

\* Gui::requestFocus(element, direction); element 0 is nullptr
requestFocus(fs, element, direction) ==
    LET unset == IF fs.m_focusedElement # 0
                 THEN setFocused(fs, fs.m_focusedElement, FALSE)
                 ELSE fs
        moved == [unset EXCEPT !.m_focusedElement = element]
    IN  IF moved.m_focusedElement # 0
        THEN setFocused(moved, moved.m_focusedElement, TRUE)
        ELSE moved

----------------------------------------------------------------------------
(* Elements: bounds, layout and drawing of the Screen's tree *)

\* Element(): m_x(0), m_y(0), m_width(0), m_height(0)
NoBounds == [x |-> 0, y |-> 0, w |-> 0, h |-> 0]

\* conversion of an int to u16
U16(v) == v % 65536

\* Element::layout: the four u16 members take the arguments
ElementLayout(b, e, x, y, w, h) ==
    [b EXCEPT ![e] = [x |-> x, y |-> y, w |-> w, h |-> h]]

\* e->getHeight(): List and OverlayFrame return m_height; an item returns the
\* height it declares
getHeight(b, heights, e) ==
    IF e \in {FrameElement, ListElement} THEN b[e].h ELSE heights[e]

\* the loop of List::layout from item i on: item->layout(x, currY, w,
\* item->getHeight()); currY += item->getHeight(); currY is a u16
RECURSIVE ListLayoutItems(_, _, _, _, _, _, _)
ListLayoutItems(b, items, heights, i, x, currY, w) ==
    IF i > Len(items)
    THEN b
    ELSE LET item == items[i]
             laid == ElementLayout(b, item, x, currY, w,
                                   U16(getHeight(b, heights, item)))
         IN  ListLayoutItems(laid, items, heights, i + 1, x,
                             U16(currY + getHeight(laid, heights, item)), w)

\* List::layout: Element::layout(x, y, w, h); u16 currY = y - m_scrollOffset; ...
ListLayout(b, items, heights, s, x, y, w, h) ==
    ListLayoutItems(ElementLayout(b, ListElement, x, y, w, h), items, heights, 1,
                    x, U16(y - s), w)

\* m_contentElement->layout(...): the content is the list or a single item
ContentLayout(b, content, items, heights, s, x, y, w, h) ==
    IF content = ListElement
    THEN ListLayout(b, items, heights, s, x, y, w, h)
    ELSE ElementLayout(b, content, x, y, w, h)

\* an OverlayFrame::layout that hands its own bounds to the content
OverlayFrameLayoutNoInset(b, content, items, heights, s, x, y, w, h) ==
    LET own == ElementLayout(b, FrameElement, x, y, w, h)
    IN  IF content # 0
        THEN ContentLayout(own, content, items, heights, s, x, y, w, h)
        ELSE own

\* OverlayFrame::layout: Element::layout(x, y, w, h); if (m_contentElement)
\* m_contentElement->layout(x + 20, y + 100, w - 40, h - 150);
OverlayFrameLayout(b, content, items, heights, s, x, y, w, h) ==
    LET own == ElementLayout(b, FrameElement, x, y, w, h)
    IN  IF content # 0
        THEN ContentLayout(own, content, items, heights, s,
                           U16(x + 20), U16(y + 100), U16(w - 40), U16(h - 150))
        ELSE own

\* OverlayFrame::setContent
setContent(content, new) == new

\* the title and subtitle the Screen's frame is constructed with
FrameTitle == "Title"
FrameSubtitle == "Sub"

\* one call made while drawing: a renderer call, or the draw() of an item
DrawCall(op, elem, text, x, y, w, h, size, color) ==
    [op |-> op, elem |-> elem, text |-> text, x |-> x, y |-> y, w |-> w, h |-> h,
     size |-> size, color |-> color]

\* renderer->drawRect(x, y, w, h, color), made for Element elem
RectCall(elem, x, y, w, h, color) == DrawCall("drawRect", elem, "", x, y, w, h, 0, color)

\* renderer->drawString(text, false, x, y, size, color), made for Element elem
StringCall(elem, text, x, y, size, color) ==
    DrawCall("drawString", elem, text, x, y, 0, 0, size, color)

\* item->draw(renderer): the item's own drawing
ItemDraw(elem) == DrawCall("draw", elem, "", 0, 0, 0, 0, 0, ColorTransparent)

\* the highlight Element::frame paints: drawRect(getX() - 2, getY() - 2,
\* getWidth() + 4, getHeight() + 4, ColorHighlight)
HighlightCall(b, heights, e) ==
    RectCall(e, b[e].x - 2, b[e].y - 2, b[e].w + 4, getHeight(b, heights, e) + 4,
             ColorHighlight)

\* Element::frame on an item: the highlight if focused and selectable, then draw
frame(log, b, heights, focused, isItem, e) ==
    LET lit == IF focused[e] /\ isItem[e]
               THEN Append(log, HighlightCall(b, heights, e))
               ELSE log
    IN  Append(lit, ItemDraw(e))

\* List::draw: for (auto item : m_items) item->draw(renderer)
ListDraw(log, items) == log \o [i \in 1..Len(items) |-> ItemDraw(items[i])]

\* m_contentElement->draw(renderer)
ContentDraw(log, content, items) ==
    IF content = ListElement THEN ListDraw(log, items) ELSE Append(log, ItemDraw(content))

\* OverlayFrame::draw: the background, the header, the content
OverlayFrameDrawCalls(log, area, content, items) ==
    LET own == log \o <<RectCall(FrameElement, 0, 0, area.w, area.h, ColorFrameBackground),
                       StringCall(FrameElement, FrameTitle, 20, 50, 32, ColorText),
                       StringCall(FrameElement, FrameSubtitle, 20, 85, 15,
                                  ColorDescription)>>
    IN  IF content # 0 THEN ContentDraw(own, content, items) ELSE own

\* Gui::draw: if (m_root) m_root->draw(renderer); root 0 is nullptr
GuiDrawCalls(root, area, content, items) ==
    IF root # 0 THEN OverlayFrameDrawCalls(<<>>, area, content, items) ELSE <<>>

\* delete on an Element*; a second delete of the same Element is told apart
DeleteElement(life, e) ==
    [life EXCEPT ![e] = IF @ = "alive" THEN "destroyed" ELSE "destroyed twice"]

\* ~List from item i on: for (auto item : m_items) delete item; the items are leaves
RECURSIVE ListDestroyItems(_, _, _)
ListDestroyItems(life, items, i) ==
    IF i > Len(items)
    THEN life
    ELSE ListDestroyItems(DeleteElement(life, items[i]), items, i + 1)

\* delete m_contentElement: ~List deletes its items first, an item has no children
ContentDestroy(life, content, items) ==
    DeleteElement(IF content = ListElement THEN ListDestroyItems(life, items, 1) ELSE life,
                  content)

\* delete on the frame: ~OverlayFrame: if (m_contentElement) delete m_contentElement
OverlayFrameDestroy(life, content, items) ==
    DeleteElement(IF content # 0 THEN ContentDestroy(life, content, items) ELSE life,
                  FrameElement)

\* ~Gui: if (m_root) delete m_root; root 0 is nullptr
GuiDestroy(life, root, content, items) ==
    IF root # 0 THEN OverlayFrameDestroy(life, content, items) ELSE life

\* Element::setBoundaries: the four u16 members take the arguments
setBoundaries(b, e, x, y, w, h) ==
    [b EXCEPT ![e] = [x |-> x, y |-> y, w |-> w, h |-> h]]

\* Element::setParent
setParent(parent, e, p) == [parent EXCEPT ![e] = p]

\* the Element n steps up the m_parent chain from e (0: the chain has ended)
RECURSIVE ParentAt(_, _, _)
ParentAt(parent, e, n) ==
    IF n = 0 \/ e = 0 THEN e ELSE ParentAt(parent, parent[e], n - 1)

\* the m_parent chain from e never ends: it runs into a cycle, and invalidate()
\* never returns
Endless(parent, e) == ParentAt(parent, e, Cardinality(DOMAIN parent)) # 0

\* Element::invalidate on e: if (m_parent) m_parent->invalidate(); the
\* Elements whose invalidate() runs after e's own, in order
RECURSIVE invalidate(_, _)
invalidate(parent, e) ==
    IF parent[e] # 0 THEN <<parent[e]>> \o invalidate(parent, parent[e]) ELSE <<>>

\* the composite e was attached to with addItem or setContent (0: none)
Owner(content, items, e) ==
    IF e # 0 /\ e = content THEN FrameElement
    ELSE IF \E i \in 1..Len(items) : items[i] = e THEN ListElement
    ELSE 0

\* the composites above e in the tree as built, nearest first
RECURSIVE Ancestors(_, _, _)
Ancestors(content, items, e) ==
    LET owner == Owner(content, items, e)
    IN  IF owner # 0 THEN <<owner>> \o Ancestors(content, items, owner) ELSE <<>>

NoInvalidate == [element |-> 0, reached |-> <<>>, ancestors |-> <<>>]

\* the areas layout runs against: the surface of the model, the logical layer
LayoutAreas ==
    {[w |-> FramebufferWidth, h |-> FramebufferHeight],
     [w |-> LayerMaxWidth, h |-> LayerMaxHeight]}

\* scroll offsets a List subclass may hold: none, beyond the list's origin, negative
ScrollOffsets == {0, 150, -30}

\* heights items declare
ItemHeights == {30, 70}

\* the tree's state in the specifications that do not build one: createUI has
\* made the frame and the list, no item, nothing attached
InitTreeVars ==
    /\ m_contentElement = 0
    /\ m_scrollOffset = 0
    /\ itemHeight = [e \in Elements |-> 0]
    /\ m_isItem = [e \in Elements |-> FALSE]
    /\ bounds = [e \in Elements |-> NoBounds]
    /\ drawLog = <<>>
    /\ treePc = "createUI"
    /\ layoutArea = [w |-> FramebufferWidth, h |-> FramebufferHeight]
    /\ elemLife = [e \in Elements |-> IF e \in {FrameElement, ListElement}
                                     THEN "alive" ELSE "free"]
    /\ m_parent = [e \in Elements |-> 0]
    /\ everInTree = {}
    /\ lastInvalidate = NoInvalidate
    /\ nSetBoundaries = 0
    /\ nFrameCalls = 0

\* a built Screen: Element() starts every node unfocused, the Screen's focus
\* pointer is nullptr
InitFocusVars ==
    /\ m_items = <<>>
    /\ m_focused = [e \in Elements |-> FALSE]
    /\ m_focusedElement = 0
    /\ lastFocus = [element |-> 0, direction |-> "None", old |-> 0]
    /\ nFocusCalls = 0
    /\ InitTreeVars

----------------------------------------------------------------------------
(* FontManager: the glyph cache *)

\* code points and sizes looked up
Characters == {32, 65, 128512}
FontSizes == {15, 32}

\* bit 63 of the key: bit 31 of the character, shifted up by 32, or the monospace flag
KeyBit63(character, monospace) ==
    IF monospace THEN 1 ELSE (character \div 1073741824) \div 2

\* a key that leaves the monospace flag out
GlyphKeyNoStyle(character, monospace, fontSize) ==
    [bit63 |-> KeyBit63(character, FALSE),
     bits62to32 |-> (character % 1073741824) + ((character \div 1073741824) % 2) * 1073741824,
     bits31to0 |-> fontSize]

\* u64 key = (u64(character) << 32) | fontSize; if (monospace) key |= (1ULL << 63);
\* the 64 bits as bit 63, bits 62..32 and bits 31..0
GlyphKey(character, monospace, fontSize) ==
    [bit63 |-> KeyBit63(character, monospace),
     bits62to32 |-> (character % 1073741824) + ((character \div 1073741824) % 2) * 1073741824,
     bits31to0 |-> fontSize]

\* the bounding box the font engine reports for a face, relative to the pen
\* position on the baseline: empty for a space, and otherwise one pixel of left
\* bearing and a box that grows with the size, 1 + size / 16 wide and
\* 1 + size / 8 high. On the unloaded face it reads zeros or whatever lies there.
GlyphBitmapBox(face, character, fontSize) ==
    IF face = "loaded"
    THEN IF character = 32
         THEN [x0 |-> 0, y0 |-> 0, x1 |-> 0, y1 |-> 0]
         ELSE [x0 |-> 1, y0 |-> -(1 + fontSize \div 8),
               x1 |-> 2 + fontSize \div 16, y1 |-> 0]
    ELSE IF face = "garbage"
    THEN [x0 |-> 0, y0 |-> -1, x1 |-> 1, y1 |-> 0]
    ELSE [x0 |-> 0, y0 |-> 0, x1 |-> 0, y1 |-> 0]

\* scale * advance, in half pixels: the advance is fractional
GlyphAdvanceHalves(face, character, fontSize) ==
    IF face = "loaded" THEN fontSize ELSE IF face = "garbage" THEN 2 ELSE 0

\* FontManager::initialize(): loaded tells whether plGetSharedFontByType succeeded
initialize(initialized, loaded) == initialized \/ loaded

\* s_stdFont as the font engine finds it. While no font is loaded it is the
\* zero-filled static object, whose data pointer is null: a call on it is
\* undefined. It faults, or reads zeros, or reads whatever lies there.
UnloadedOutcomes == {"fault", "zeros", "garbage"}
FontFace(initialized, ub) == IF initialized THEN "loaded" ELSE ub

NoGlyph ==
    [id |-> 0, currFontSize |-> 0, width |-> 0, height |-> 0, xOffset |-> 0,
     yOffset |-> 0, xAdvanceHalves |-> 0, hasBmp |-> FALSE]

\* the Glyph a cache miss creates from the box and the advance the font engine
\* reports; id tells the allocations apart
NewGlyph(id, fontSize, box, advanceHalves) ==
    LET w == box.x1 - box.x0
        h == box.y1 - box.y0
    IN  [id |-> id, currFontSize |-> fontSize, width |-> w, height |-> h,
         xOffset |-> box.x0, yOffset |-> box.y0,
         xAdvanceHalves |-> advanceHalves,
         hasBmp |-> (w > 0 /\ h > 0)]

\* getOrCreateGlyph: the cache after the call and the entry returned; on a miss
\* the font engine is called on the face, loaded or not
getOrCreateGlyph(cache, face, character, monospace, fontSize) ==
    LET key == GlyphKey(character, monospace, fontSize)
    IN  IF key \in DOMAIN cache
        THEN [cache |-> cache, glyph |-> cache[key], fault |-> FALSE, unloaded |-> FALSE]
        ELSE IF face = "fault"
        THEN [cache |-> cache, glyph |-> NoGlyph, fault |-> TRUE, unloaded |-> TRUE]
        ELSE LET glyph == NewGlyph(Cardinality(DOMAIN cache) + 1, fontSize,
                                      GlyphBitmapBox(face, character, fontSize),
                                      GlyphAdvanceHalves(face, character, fontSize))
             IN  [cache |-> [k \in DOMAIN cache \cup {key} |->
                                IF k = key THEN glyph ELSE cache[k]],
                  glyph |-> glyph, fault |-> FALSE, unloaded |-> (face # "loaded")]

NoTextArgs == [text |-> <<>>, monospace |-> FALSE, fontSize |-> 0, x |-> 0]
NotMeasured == [done |-> FALSE, width |-> 0, height |-> 0]
NotDrawn == [done |-> FALSE, reach |-> <<>>]

\* the font and text state when no text call is made: the font is loaded
InitTextVars ==
    /\ s_initialized = TRUE
    /\ fontLoadTried = TRUE
    /\ unloadedFaceUsed = FALSE
    /\ textArgs = NoTextArgs
    /\ measured = NotMeasured
    /\ drawn = NotDrawn

InitGlyphVars ==
    /\ s_glyphCache = <<>>
    /\ glyphLog = {}
    /\ lastGlyph = [character |-> 0, monospace |-> FALSE, fontSize |-> 0, id |-> 0]
    /\ nLookups = 0
    /\ InitTextVars

----------------------------------------------------------------------------
(* Renderer: text *)

\* in[i] of the C string: the bytes of the text, then the terminating 0
Byte(text, i) == IF i <= Len(text) THEN text[i] ELSE 0

\* (b & 0xC0) != 0x80
NotContinuation(b) == b \div 64 # 2

\* hlp::decode_utf8 at position i: the length consumed (-1: invalid) and the code point
decode_utf8(text, i) ==
    LET b0 == Byte(text, i)
        b1 == Byte(text, i + 1)
        b2 == Byte(text, i + 2)
        b3 == Byte(text, i + 3)
        invalid == [len |-> -1, cp |-> 0]
    IN  IF b0 < 128 THEN [len |-> 1, cp |-> b0]
        ELSE IF b0 < 194 THEN invalid
        ELSE IF b0 < 224
        THEN IF NotContinuation(b1) THEN invalid
             ELSE [len |-> 2, cp |-> (b0 % 32) * 64 + (b1 % 64)]
        ELSE IF b0 < 240
        THEN IF NotContinuation(b1) \/ NotContinuation(b2) THEN invalid
             ELSE [len |-> 3, cp |-> (b0 % 16) * 4096 + (b1 % 64) * 64 + (b2 % 64)]
        ELSE IF b0 < 245
        THEN IF NotContinuation(b1) \/ NotContinuation(b2) \/ NotContinuation(b3)
             THEN invalid
             ELSE [len |-> 4, cp |-> (b0 % 8) * 262144 + (b1 % 64) * 4096
                                     + (b2 % 64) * 64 + (b3 % 64)]
        ELSE invalid

\* (s32)(float(currX) + xAdvance), the advance in half pixels: the conversion
\* drops the fraction, toward zero
CursorAfter(currX, xAdvanceHalves) ==
    LET sum == 2 * currX + xAdvanceHalves
    IN  IF sum >= 0 THEN sum \div 2 ELSE -((-sum) \div 2)

\* (u32)(float(width) + xAdvance) for a non-negative sum
WidthAfter(width, xAdvanceHalves) == (2 * width + xAdvanceHalves) \div 2

\* the coverage the font engine renders into the bitmap: full
GlyphBmpAlpha == 255

\* the state of drawString's loops over a glyph's bitmap: the surface, the
\* column and the row
GlyphLoop(st, gx, gy) == [st |-> st, gx |-> gx, gy |-> gy]

\* for (u32 gx = ...; gx < glyph->width; gx++): the inner loop, in row loop.gy
RECURSIVE drawGlyphRow(_, _, _, _, _, _)
drawGlyphRow(loop, glyph, currX, y, fontSize, color) ==
    IF loop.gx >= glyph.width
    THEN loop
    ELSE LET alpha == GlyphBmpAlpha
             c == [color EXCEPT !.a = Shr4(color.a * Shr4(alpha)) % 16]
         IN  drawGlyphRow(
                 [loop EXCEPT !.st = IF alpha > 0
                                     THEN setPixelBlend(@, currX + loop.gx + glyph.xOffset,
                                                        y + loop.gy + glyph.yOffset + fontSize,
                                                        c)
                                     ELSE @,
                              !.gx = @ + 1],
                 glyph, currX, y, fontSize, color)

\* for (u32 gy = ...; gy < glyph->height; gy++): the outer loop; the surface
\* when it ends
RECURSIVE drawGlyph(_, _, _, _, _, _)
drawGlyph(loop, glyph, currX, y, fontSize, color) ==
    IF loop.gy >= glyph.height
    THEN loop.st
    ELSE drawGlyph([drawGlyphRow([loop EXCEPT !.gx = 0], glyph, currX, y, fontSize, color)
                       EXCEPT !.gy = @ + 1],
                   glyph, currX, y, fontSize, color)

\* the state of drawString's loop: the surface, the cache, the cursor, the
\* cursor's distance from x at the end of each finished line, and whether the
\* font engine faulted or was called on the unloaded face
DrawState(st, cache, currX, y) ==
    [st |-> st, cache |-> cache, currX |-> currX, y |-> y, reach |-> <<>>,
     fault |-> FALSE, unloaded |-> FALSE]

\* drawString's while loop from byte i on
RECURSIVE drawStringFrom(_, _, _, _, _, _, _, _)

\* the loop's body once the glyph r of the code point is at hand: the glyph is
\* painted, the cursor advances, the loop goes on at byte next
drawStringGlyph(ds, r, text, next, face, monospace, x, fontSize, color) ==
    IF r.fault
    THEN [ds EXCEPT !.fault = TRUE, !.unloaded = TRUE]
    ELSE drawStringFrom(
             [ds EXCEPT !.cache = r.cache,
                        !.unloaded = @ \/ r.unloaded,
                        !.st = IF r.glyph.hasBmp
                               THEN drawGlyph(GlyphLoop(@, 0, 0), r.glyph, ds.currX,
                                              ds.y, fontSize, color)
                               ELSE @,
                        !.currX = CursorAfter(@, r.glyph.xAdvanceHalves)],
             text, next, face, monospace, x, fontSize, color)

\* the loop's body for the code point d decoded at byte i
drawStringAt(ds, d, text, i, face, monospace, x, fontSize, color) ==
    IF d.len <= 0
    THEN ds
    ELSE IF d.cp = 10
    THEN drawStringFrom([ds EXCEPT !.reach = Append(@, ds.currX - x),
                                   !.currX = x,
                                   !.y = @ + fontSize],
                        text, i + d.len, face, monospace, x, fontSize, color)
    ELSE drawStringGlyph(ds, getOrCreateGlyph(ds.cache, face, d.cp, monospace, fontSize),
                         text, i + d.len, face, monospace, x, fontSize, color)

drawStringFrom(ds, text, i, face, monospace, x, fontSize, color) ==
    IF Byte(text, i) = 0
    THEN ds
    ELSE drawStringAt(ds, decode_utf8(text, i), text, i, face, monospace, x,
                      fontSize, color)

\* the end of drawString: the last line ends where the loop ends
EndOfString(ds, x) == [ds EXCEPT !.reach = Append(@, ds.currX - x)]

\* Renderer::drawString
drawString(st, cache, face, text, monospace, x, y, fontSize, color) ==
    EndOfString(drawStringFrom(DrawState(st, cache, x, y), text, 1, face, monospace,
                               x, fontSize, color),
                x)

\* std::string::c_str(): the bytes of the texts the frame is constructed with
c_str(text) ==
    IF text = "Title" THEN <<84, 105, 116, 108, 101>>
    ELSE IF text = "Sub" THEN <<83, 117, 98>>
    ELSE <<>>

\* what a Screen's painting works on: the surface and the glyph cache
Painted(fb, oob, cache) == [fb |-> fb, oob |-> oob, cache |-> cache]

\* what a renderer call leaves for the rest of the painting: its surface r.st
\* and the cache r.cache
PaintedOf(r) == Painted(r.st.fb, r.st.oob, r.cache)

\* renderer->drawRect on the surface of p
drawRectOn(p, x, y, w, h, color) ==
    PaintedOf([st |-> drawRect(Surface(p.fb, p.oob), x, y, w, h, color),
               cache |-> p.cache])

\* renderer->drawString on the surface and the cache of p, the font loaded
drawStringOn(p, text, monospace, x, y, fontSize, color) ==
    PaintedOf(drawString(Surface(p.fb, p.oob), p.cache, "loaded", text, monospace,
                         x, y, fontSize, color))

\* the renderer calls of OverlayFrame::draw: the background over the area, the
\* title, the subtitle
OverlayFramePaint(p, area, title, subtitle) ==
    drawStringOn(
        drawStringOn(
            drawRectOn(p, 0, 0, area.w, area.h, ColorFrameBackground),
            c_str(title), FALSE, 20, 50, 32, ColorText),
        c_str(subtitle), FALSE, 20, 85, 15, ColorDescription)

\* the state of getTextDimensions' loop
MeasureState(cache, fontSize) ==
    [cache |-> cache, width |-> 0, height |-> fontSize, maxWidth |-> 0,
     fault |-> FALSE, unloaded |-> FALSE]

\* getTextDimensions' while loop from byte i on
RECURSIVE getTextDimensionsFrom(_, _, _, _, _, _)
getTextDimensionsFrom(ms, text, i, face, monospace, fontSize) ==
    IF Byte(text, i) = 0
    THEN ms
    ELSE LET d == decode_utf8(text, i)
         IN  IF d.len <= 0
             THEN ms
             ELSE IF d.cp = 10
             THEN getTextDimensionsFrom([ms EXCEPT !.maxWidth = Max2(@, ms.width),
                                                   !.width = 0,
                                                   !.height = @ + fontSize],
                                        text, i + d.len, face, monospace, fontSize)
             ELSE LET r == getOrCreateGlyph(ms.cache, face, d.cp, monospace, fontSize)
                  IN  IF r.fault
                      THEN [ms EXCEPT !.fault = TRUE, !.unloaded = TRUE]
                      ELSE getTextDimensionsFrom(
                               [ms EXCEPT !.cache = r.cache,
                                          !.unloaded = @ \/ r.unloaded,
                                          !.width = WidthAfter(@, r.glyph.xAdvanceHalves)],
                               text, i + d.len, face, monospace, fontSize)

\* Renderer::getTextDimensions: {maxWidth, height}
getTextDimensions(cache, face, text, monospace, fontSize) ==
    LET ms == getTextDimensionsFrom(MeasureState(cache, fontSize), text, 1, face,
                                    monospace, fontSize)
    IN  [ms EXCEPT !.maxWidth = Max2(@, ms.width)]

----------------------------------------------------------------------------
(* tsl::loop, the driver, and Overlay::loop, the frame *)

Step(name, g) == <<name, g>>

\* the iteration of the driver's loop in which close() was first called
CloseFrame(first, close, iteration) ==
    IF first = 0 /\ close THEN iteration ELSE first

\* the state after `new TOverlay()`
InitNav ==
    /\ m_guiStack = <<>>
    /\ guiLife = [g \in Screens |-> "free"]
    /\ m_root = [g \in Screens |-> "nullptr"]
    /\ m_shouldClose = FALSE
    /\ s_instance = "overlay"
    /\ pc = "while"
    /\ gui = 0
    /\ frameSteps = <<>>
    /\ createUICalls = [g \in Screens |-> 0]
    /\ layoutCalls = [g \in Screens |-> 0]
    /\ updateCalls = [g \in Screens |-> 0]
    /\ updateGuiCalls = [g \in Screens |-> 0]
    /\ lastNav = NoNav
    /\ uaf = FALSE
    /\ nFrames = 0
    /\ closeFrame = 0

Init ==
    /\ InitNav
    /\ InitFocusVars
    /\ InitGlyphVars
    /\ currFb = <<>>
    /\ oobWrite = FALSE
    /\ prevFb = <<>>
    /\ lastCall = NoCall
    /\ nCalls = 0

\* while (appletMainLoop()) { if (overlay->shouldClose()) break; ...
WhileCheck ==
    /\ pc = "while"
    /\ \E running \in (IF nFrames < MaxFrames THEN BOOLEAN ELSE {FALSE}) :
          IF running /\ ~m_shouldClose
          THEN pc' = "input" /\ nFrames' = nFrames + 1
          ELSE pc' = "exit" /\ nFrames' = nFrames
    /\ UNCHANGED <<closeFrame, focusVars, glyphVars, renderVars, m_guiStack, guiLife, m_root, m_shouldClose, s_instance,
                   gui, frameSteps, createUICalls, layoutCalls, updateCalls,
                   updateGuiCalls, lastNav, uaf>>

\* if (auto gui = overlay->getCurrentGui()) gui->handleInput(kDown, kHeld, touch);
HandleInput ==
    /\ pc = "input"
    /\ \E h \in (IF getCurrentGui(m_guiStack) # 0 THEN HookCalls ELSE {"none"}) :
          LET ns == HookCall(NavState(Overlay(m_guiStack, guiLife), m_shouldClose, lastNav), h)
          IN  /\ m_guiStack' = ns.ov.stack
              /\ guiLife' = ns.ov.life
              /\ m_shouldClose' = ns.close
              /\ closeFrame' = CloseFrame(closeFrame, ns.close, nFrames)
              /\ lastNav' = ns.nav
    /\ pc' = "loop"
    /\ UNCHANGED <<focusVars, glyphVars, renderVars, m_root, s_instance, gui, frameSteps, createUICalls,
                   layoutCalls, updateCalls, updateGuiCalls, uaf, nFrames>>

\* a loop() that presents a frame although there is no Screen
LoopBeginPresentsAnyway ==
    /\ pc = "loop"
    /\ frameSteps' = <<>>
    /\ gui' = getCurrentGui(m_guiStack)
    /\ pc' = IF m_guiStack = <<>> THEN "present" ELSE "update"
    /\ UNCHANGED <<closeFrame, focusVars, glyphVars, renderVars, m_guiStack, guiLife, lastNav,
                   m_root, m_shouldClose, s_instance, createUICalls,
                   layoutCalls, updateCalls, updateGuiCalls, uaf, nFrames>>

\* Overlay::loop up to `Gui* gui = m_guiStack.top();`
LoopBegin ==
    /\ pc = "loop"
    /\ frameSteps' = <<>>
    /\ IF m_guiStack = <<>>
       THEN \E offered \in BOOLEAN :
               IF offered
               THEN LET ov == pushNew(Overlay(m_guiStack, guiLife))
                    IN  /\ m_guiStack' = ov.stack
                        /\ guiLife' = ov.life
                        /\ lastNav' = [op |-> "pushGui", arg |-> Top(ov.stack),
                                       stack |-> m_guiStack, life |-> guiLife]
                        /\ gui' = Top(ov.stack)
                        /\ pc' = "update"
               ELSE /\ UNCHANGED <<m_guiStack, guiLife, lastNav>>
                    /\ gui' = 0
                    /\ pc' = "while"
       ELSE /\ UNCHANGED <<m_guiStack, guiLife, lastNav>>
            /\ gui' = Top(m_guiStack)
            /\ pc' = "update"
    /\ UNCHANGED <<closeFrame, focusVars, glyphVars, renderVars, m_root, m_shouldClose, s_instance, createUICalls,
                   layoutCalls, updateCalls, updateGuiCalls, uaf, nFrames>>

\* gui->updateGui();
LoopUpdate ==
    /\ pc = "update"
    /\ \E ret \in CreateUIResults, h1 \in HookCalls, h2 \in HookCalls,
          ubStore \in BOOLEAN, ubCall \in BOOLEAN :
          LET gs == updateGui(GuiState(NavState(Overlay(m_guiStack, guiLife),
                                                m_shouldClose, lastNav),
                                       m_root, createUICalls, layoutCalls,
                                       updateCalls, updateGuiCalls, uaf),
                              gui, ret, h1, h2, ubStore, ubCall)
          IN  /\ m_guiStack' = gs.ns.ov.stack
              /\ guiLife' = gs.ns.ov.life
              /\ m_shouldClose' = gs.ns.close
              /\ closeFrame' = CloseFrame(closeFrame, gs.ns.close, nFrames)
              /\ lastNav' = gs.ns.nav
              /\ m_root' = gs.root
              /\ createUICalls' = gs.cu
              /\ layoutCalls' = gs.lay
              /\ updateCalls' = gs.upd
              /\ updateGuiCalls' = gs.upg
              /\ uaf' = gs.uaf
              /\ pc' = IF gs.fault THEN "crashed" ELSE "acquire"
    /\ frameSteps' = Append(frameSteps, Step("update", gui))
    /\ UNCHANGED <<focusVars, glyphVars, renderVars, s_instance, gui, nFrames>>

\* Renderer::get().currFb = framebufferBegin(&m_fb, nullptr);
LoopAcquire ==
    /\ pc = "acquire"
    /\ currFb' \in HostSurfaces
    /\ frameSteps' = Append(frameSteps, Step("acquire", 0))
    /\ pc' = "clear"
    /\ UNCHANGED <<closeFrame, focusVars, glyphVars, oobWrite, prevFb, lastCall, nCalls, m_guiStack, guiLife, m_root,
                   m_shouldClose, s_instance, gui, createUICalls, layoutCalls,
                   updateCalls, updateGuiCalls, lastNav, uaf, nFrames>>

\* Renderer::get().drawRect(0, 0, FramebufferWidth, FramebufferHeight, ColorFrameBackground);
LoopClear ==
    /\ pc = "clear"
    /\ LET st == drawRect(Surface(currFb, oobWrite), 0, 0, FramebufferWidth,
                          FramebufferHeight, ColorFrameBackground)
       IN  currFb' = st.fb /\ oobWrite' = st.oob
    /\ frameSteps' = Append(frameSteps, Step("clear", 0))
    /\ pc' = "draw"
    /\ UNCHANGED <<closeFrame, focusVars, glyphVars, prevFb, lastCall, nCalls, m_guiStack, guiLife, m_root,
                   m_shouldClose, s_instance, gui, createUICalls, layoutCalls,
                   updateCalls, updateGuiCalls, lastNav, uaf, nFrames>>

\* gui->draw(&Renderer::get()); on a Screen an update hook has destroyed the call
\* is undefined: it faults, or draws what the freed object still holds
LoopDraw ==
    /\ pc = "draw"
    /\ \E ubFault \in (IF guiLife[gui] = "destroyed" THEN BOOLEAN ELSE {FALSE}) :
          IF ubFault
          THEN /\ pc' = "crashed"
               /\ UNCHANGED <<currFb, oobWrite>>
          ELSE /\ pc' = "present"
               /\ LET st == GuiDraw(Surface(currFb, oobWrite), m_root[gui])
                  IN  currFb' = st.fb /\ oobWrite' = st.oob
    /\ uaf' = (uaf \/ guiLife[gui] = "destroyed")
    /\ frameSteps' = Append(frameSteps, Step("draw", gui))
    /\ UNCHANGED <<closeFrame, focusVars, glyphVars, prevFb, lastCall, nCalls, m_guiStack, guiLife, m_root,
                   m_shouldClose, s_instance, gui, createUICalls, layoutCalls,
                   updateCalls, updateGuiCalls, lastNav, nFrames>>

\* framebufferEnd(&m_fb);
LoopPresent ==
    /\ pc = "present"
    /\ frameSteps' = Append(frameSteps, Step("present", 0))
    /\ pc' = "while"
    /\ UNCHANGED <<closeFrame, focusVars, glyphVars, renderVars, m_guiStack, guiLife, m_root, m_shouldClose, s_instance,
                   gui, createUICalls, layoutCalls, updateCalls, updateGuiCalls,
                   lastNav, uaf, nFrames>>

\* a teardown that stops at the bottom Screen
RECURSIVE DrainKeepsBottom(_)
DrainKeepsBottom(ov) ==
    IF Len(ov.stack) > 1
    THEN DrainKeepsBottom([DeleteGui(ov, Top(ov.stack)) EXCEPT !.stack = Pop(@)])
    ELSE ov

\* ~Overlay: while (!m_guiStack.empty()) { delete m_guiStack.top(); m_guiStack.pop(); }
RECURSIVE Drain(_)
Drain(ov) ==
    IF ov.stack # <<>>
    THEN Drain([DeleteGui(ov, Top(ov.stack)) EXCEPT !.stack = Pop(@)])
    ELSE ov

\* overlay->exitServices(); delete overlay;
DeleteOverlay ==
    /\ pc = "exit"
    /\ LET ov == Drain(Overlay(m_guiStack, guiLife))
       IN  m_guiStack' = ov.stack /\ guiLife' = ov.life
    /\ s_instance' = "nullptr"
    /\ pc' = "done"
    /\ UNCHANGED <<closeFrame, focusVars, glyphVars, renderVars, m_root, m_shouldClose, gui, frameSteps, createUICalls,
                   layoutCalls, updateCalls, updateGuiCalls, lastNav, uaf, nFrames>>

Next ==
    \/ WhileCheck
    \/ HandleInput
    \/ LoopBegin
    \/ LoopUpdate
    \/ LoopAcquire
    \/ LoopClear
    \/ LoopDraw
    \/ LoopPresent
    \/ DeleteOverlay

Spec == Init /\ [][Next]_vars

----------------------------------------------------------------------------
(* Claims about the navigation stack and the frame loop, under Spec *)

\* C1: when the stack's top is a Screen B, changeGui(C) destroys B and only B,
\* makes C the Screen getCurrentGui() returns, leaves the depth unchanged, and
\* leaves every Screen beneath B alive and in the same order.
C1_ChangeGuiReplacesTop ==
    (lastNav.op = "swapTo" /\ lastNav.stack # <<>> /\ pc # "done") =>
        LET B == Top(lastNav.stack)
            C == lastNav.arg
        IN  /\ lastNav.life[B] = "alive" /\ guiLife[B] = "destroyed"
            /\ \A g \in Screens \ {B, C} : guiLife[g] = lastNav.life[g]
            /\ getCurrentGui(m_guiStack) = C /\ guiLife[C] = "alive"
            /\ Len(m_guiStack) = Len(lastNav.stack)
            /\ Pop(m_guiStack) = Pop(lastNav.stack)
            /\ \A i \in 1..(Len(m_guiStack) - 1) : guiLife[m_guiStack[i]] = "alive"

\* a changeGui that replaced B while a Screen A lay beneath it
C1_Witness ==
    /\ lastNav.op = "swapTo" /\ Len(lastNav.stack) >= 2 /\ pc # "done"
    /\ guiLife[Top(lastNav.stack)] = "destroyed"
    /\ m_guiStack[1] = lastNav.stack[1]

\* C2: pushGui(S) makes S the current Screen, increases the depth by exactly one,
\* destroys no Screen, and keeps the previous top directly beneath S, so that
\* dropping the top makes the previous top current again.
C2_PushGuiCoversTop ==
    (lastNav.op = "pushGui" /\ pc # "done") =>
        /\ getCurrentGui(m_guiStack) = lastNav.arg /\ guiLife[lastNav.arg] = "alive"
        /\ Len(m_guiStack) = Len(lastNav.stack) + 1
        /\ \A g \in Screens \ {lastNav.arg} : guiLife[g] = lastNav.life[g]
        /\ Pop(m_guiStack) = lastNav.stack
        /\ getCurrentGui(Pop(m_guiStack)) = getCurrentGui(lastNav.stack)

\* pushGui(A) then pushGui(B): B is current and dropping it leaves A current
C2_Witness ==
    /\ lastNav.op = "pushGui" /\ Len(lastNav.stack) >= 1 /\ pc # "done"
    /\ getCurrentGui(m_guiStack) = lastNav.arg
    /\ getCurrentGui(Pop(m_guiStack)) = Top(lastNav.stack)

\* the steps of a complete frame on Screen g
FullFrame(g) ==
    <<Step("update", g), Step("acquire", 0), Step("clear", 0), Step("draw", g),
      Step("present", 0)>>

\* an Overlay::loop call that found or was given a top Screen has ended
LoopEnded == pc \in {"while", "crashed"} /\ gui # 0

\* C4: every Overlay::loop call in which a top Screen exists performs, once each
\* and in this order, update of the top Screen, surface acquisition, clear, draw
\* of that Screen's tree and presentation; every acquisition is followed by its
\* presentation within the call.
C4_FrameStepsInOrder == LoopEnded => frameSteps = FullFrame(gui)

\* C5 (build-once part): for every Screen, however many updateGui() calls it
\* gets, createUI() is invoked exactly once, on the first call, whatever it
\* returns, and the root is laid out at most once.
C5_BuiltExactlyOnce ==
    \A g \in Screens :
        updateGuiCalls[g] >= 1 => createUICalls[g] = 1 /\ layoutCalls[g] <= 1

\* C6: after the clear step of Overlay::loop every pixel of the surface equals
\* the base background color, whatever the previous frame left there.
C6_ClearedToBackground ==
    pc = "draw" => \A i \in DOMAIN currFb : currFb[i] = ColorFrameBackground

----------------------------------------------------------------------------
(* The renderer alone, driven by arbitrary calls on an acquired surface *)

InitRender ==
    /\ InitNav
    /\ InitFocusVars
    /\ InitGlyphVars
    /\ currFb \in HostSurfaces
    /\ oobWrite = FALSE
    /\ prevFb = currFb
    /\ lastCall = NoCall
    /\ nCalls = 0

\* the effect of one renderer call that turns the surface into st
Called(op, color, cells, st) ==
    /\ nCalls < MaxCalls
    /\ nCalls' = nCalls + 1
    /\ prevFb' = currFb
    /\ currFb' = st.fb
    /\ oobWrite' = st.oob
    /\ lastCall' = [op |-> op, color |-> color, cells |-> cells]
    /\ UNCHANGED <<navVars, focusVars, glyphVars>>

CallSetPixel ==
    \E x \in XArgs, y \in YArgs, color \in SrcColors :
        Called("setPixel", color, PixelCells(x, y),
               setPixel(Surface(currFb, oobWrite), x, y, color))

CallSetPixelBlend ==
    \E x \in XArgs, y \in YArgs, color \in SrcColors :
        Called("setPixelBlend", color, PixelCells(x, y),
               setPixelBlend(Surface(currFb, oobWrite), x, y, color))

CallDrawRect ==
    \E x \in RectXArgs, y \in RectYArgs, w \in SizeArgs, h \in SizeArgs, color \in RectColors :
        \E xw \in S32AddOutcomes(x, w), yh \in S32AddOutcomes(y, h) :
            Called("drawRect", color, RectCells(x, y, w, h),
                   drawRectSums(Surface(currFb, oobWrite), x, y, xw, yh, color))

NextRender == CallSetPixel \/ CallSetPixelBlend \/ CallDrawRect

SpecRender == InitRender /\ [][NextRender]_vars

----------------------------------------------------------------------------
(* Claims about the renderer, under SpecRender *)

\* C7: no call of setPixel, setPixelBlend or drawRect, whatever its arguments,
\* stores outside the surface's cells, and a call changes no cell other than
\* the in-surface cells it addresses: a pixel call whose (x, y) is outside the
\* surface, or a rectangle wholly outside it, changes no cell at all.
C7_WritesStayInSurface ==
    /\ ~oobWrite
    /\ DOMAIN currFb = DOMAIN prevFb
    /\ \A i \in DOMAIN currFb : i \notin lastCall.cells => currFb[i] = prevFb[i]

\* a rectangle that overlaps the surface only in part has painted its part
C7_Witness ==
    /\ lastCall.op = "drawRect"
    /\ lastCall.cells # {} /\ lastCall.cells # DOMAIN currFb
    /\ \A i \in lastCall.cells : currFb[i] # prevFb[i]

\* C8: setPixelBlend of an in-surface pixel with a source of alpha 15 leaves the
\* destination with exactly the source's r, g and b and its own previous alpha.
C8_OpaqueBlendReplacesRgb ==
    (lastCall.op = "setPixelBlend" /\ lastCall.color.a = 15) =>
        \A i \in lastCall.cells :
            /\ currFb[i].r = lastCall.color.r
            /\ currFb[i].g = lastCall.color.g
            /\ currFb[i].b = lastCall.color.b
            /\ currFb[i].a = prevFb[i].a

\* C9: setPixelBlend with a source whose alpha is 0 leaves the whole surface
\* unchanged, for every (x, y).
C9_TransparentBlendIsNoOp ==
    (lastCall.op = "setPixelBlend" /\ lastCall.color.a = 0) =>
        currFb = prevFb /\ ~oobWrite

\* a transparent blend aimed at an in-surface pixel that holds a color
C9_Witness ==
    /\ lastCall.op = "setPixelBlend" /\ lastCall.color.a = 0
    /\ lastCall.cells # {}
    /\ \E i \in lastCall.cells : currFb[i].r # 0

----------------------------------------------------------------------------
(* One built Screen whose list grows and whose focus is requested at will *)

InitFocus ==
    /\ InitNav
    /\ InitFocusVars
    /\ InitGlyphVars
    /\ currFb = <<>>
    /\ oobWrite = FALSE
    /\ prevFb = <<>>
    /\ lastCall = NoCall
    /\ nCalls = 0

\* list->addItem(new item)
AddItem ==
    /\ Len(m_items) < MaxItems
    /\ m_items' = addItem(m_items, ListElement + Len(m_items) + 1)
    /\ elemLife' = [elemLife EXCEPT ![ListElement + Len(m_items) + 1] = "alive"]
    /\ UNCHANGED <<m_contentElement, m_scrollOffset, itemHeight, m_isItem, bounds,
                   drawLog, treePc, layoutArea, m_parent, everInTree, lastInvalidate, nSetBoundaries, nFrameCalls>>
    /\ UNCHANGED <<m_focused, m_focusedElement, lastFocus, nFocusCalls,
                   renderVars, navVars, glyphVars>>

\* gui->requestFocus(element, direction) with an Element of the tree or nullptr
RequestFocus ==
    /\ nFocusCalls < MaxFocusCalls
    /\ \E element \in TreeElements(m_items) \cup {0}, direction \in FocusDirections :
          LET fs == requestFocus(FocusState(m_focused, m_focusedElement), element, direction)
          IN  /\ m_focused' = fs.m_focused
              /\ m_focusedElement' = fs.m_focusedElement
              /\ lastFocus' = [element |-> element, direction |-> direction,
                               old |-> m_focusedElement]
    /\ nFocusCalls' = nFocusCalls + 1
    /\ UNCHANGED <<m_items, treeVars, renderVars, navVars, glyphVars>>

NextFocus == AddItem \/ RequestFocus

SpecFocus == InitFocus /\ [][NextFocus]_vars

\* C3: after any sequence of Gui::requestFocus calls on a Screen, with Elements of
\* its tree, nullptr and repeats, at most one Element has isFocused() true, and
\* if one has, it is the Element getFocusedElement() returns.
C3_AtMostOneFocused ==
    /\ Cardinality({e \in Elements : m_focused[e]}) <= 1
    /\ \A e \in Elements : m_focused[e] => e = m_focusedElement

\* focus has moved from one Element of the tree to another
C3_Witness ==
    /\ lastFocus.old # 0 /\ lastFocus.element # 0 /\ lastFocus.old # lastFocus.element
    /\ m_focusedElement = lastFocus.element
    /\ m_focused[lastFocus.element] /\ ~m_focused[lastFocus.old]

----------------------------------------------------------------------------
(* The glyph cache under arbitrary lookups *)

InitGlyph ==
    /\ InitNav
    /\ InitFocusVars
    /\ InitGlyphVars
    /\ currFb = <<>>
    /\ oobWrite = FALSE
    /\ prevFb = <<>>
    /\ lastCall = NoCall
    /\ nCalls = 0

\* FontManager::getOrCreateGlyph(character, monospace, fontSize) with the font loaded
LookupGlyph ==
    /\ nLookups < MaxLookups
    /\ s_initialized
    /\ \E character \in Characters, monospace \in BOOLEAN, fontSize \in FontSizes :
          LET r == getOrCreateGlyph(s_glyphCache, FontFace(s_initialized, "fault"),
                                    character, monospace, fontSize)
              entry == [character |-> character, monospace |-> monospace,
                        fontSize |-> fontSize, id |-> r.glyph.id]
          IN  /\ s_glyphCache' = r.cache
              /\ lastGlyph' = entry
              /\ glyphLog' = glyphLog \cup {entry}
    /\ nLookups' = nLookups + 1
    /\ UNCHANGED <<s_initialized, fontLoadTried, unloadedFaceUsed, textArgs, measured, drawn>>
    /\ UNCHANGED <<renderVars, navVars, focusVars>>

NextGlyph == LookupGlyph

SpecGlyph == InitGlyph /\ [][NextGlyph]_vars

SameTriple(a, b) ==
    a.character = b.character /\ a.monospace = b.monospace /\ a.fontSize = b.fontSize

\* C10: lookups with the same (codepoint, monospace, fontSize) return the same
\* cached entry whatever was looked up in between, lookups that differ in
\* fontSize or monospace (or codepoint) return distinct entries, and the cache
\* holds exactly one entry per distinct triple requested so far, each still the
\* entry first returned for it.
C10_OneEntryPerTriple ==
    /\ \A a \in glyphLog, b \in glyphLog : SameTriple(a, b) <=> a.id = b.id
    /\ Cardinality(DOMAIN s_glyphCache) = Cardinality(glyphLog)
    /\ \A a \in glyphLog :
          LET key == GlyphKey(a.character, a.monospace, a.fontSize)
          IN  key \in DOMAIN s_glyphCache /\ s_glyphCache[key].id = a.id

\* a repeated lookup hit the entry made two lookups earlier, with entries for
\* the same code point in the other style and another size in the cache
C10_Witness ==
    /\ nLookups > Cardinality(glyphLog)
    /\ \E a \in glyphLog, b \in glyphLog :
          /\ a.character = lastGlyph.character /\ b.character = lastGlyph.character
          /\ a.id = lastGlyph.id
          /\ (b.monospace # a.monospace \/ b.fontSize # a.fontSize)
          /\ b.id > a.id

----------------------------------------------------------------------------
(* Claims about idle frames, closing and teardown, under Spec *)

\* C15: while the navigation stack is empty and no Screen has been offered,
\* Overlay::loop performs no work, frame after frame: no Screen is created or
\* updated, no surface is acquired, cleared, drawn or presented, and the stack
\* stays empty.
C15_IdleWithoutScreen ==
    (m_guiStack = <<>> /\ pc # "done") =>
        /\ frameSteps = <<>> /\ gui = 0 /\ currFb = <<>>
        /\ pc \in {"while", "input", "loop", "exit"}
        /\ \A g \in Screens : guiLife[g] = "free" /\ updateGuiCalls[g] = 0

\* two iterations have run loop() without a Screen
C15_Witness ==
    nFrames >= 2 /\ pc = "while" /\ m_guiStack = <<>> /\ frameSteps = <<>>

\* C16: once close() has been called shouldClose() stays true; the iteration in
\* which it was called runs its frame to completion, update through present; the
\* driver then starts no further iteration, so it handles no further input and
\* runs no further frame before the teardown.
C16_CloseEndsAfterFrame ==
    closeFrame # 0 =>
        /\ m_shouldClose
        /\ nFrames = closeFrame
        /\ pc # "crashed"
        /\ pc \in {"exit", "done"} => frameSteps = FullFrame(gui)

\* C18: once the Overlay is destroyed the navigation stack is empty, every
\* Screen that was handed to it has been destroyed exactly once, and the
\* singleton pointer is cleared.
C18_TeardownDestroysAll ==
    pc = "done" =>
        /\ m_guiStack = <<>>
        /\ \A g \in Screens : guiLife[g] \in {"free", "destroyed"}
        /\ s_instance = "nullptr"

\* the teardown found two Screens on the stack, the top one put there by a
\* changeGui that had destroyed its predecessor
C18_Witness ==
    /\ pc = "done" /\ m_guiStack = <<>> /\ s_instance = "nullptr"
    /\ lastNav.op = "swapTo" /\ Len(lastNav.stack) = 2
    /\ \A g \in Screens : guiLife[g] = "destroyed"

----------------------------------------------------------------------------
(* Text: one text measured and drawn, after FontManager::initialize() *)

\* bytes of the texts: 'A', '\n', the two bytes of U+00E9, and a byte that is
\* no UTF-8
TextBytes == {65, 10, 195, 169, 255}
Texts == UNION {[1..n -> TextBytes] : n \in 0..MaxTextLen}
\* sizes whose advance is a whole and a fractional number of pixels
TextSizes == {2, 3}
\* draw origins left of the surface and on it
TextXArgs == {-4, 0}

InitText ==
    /\ InitNav
    /\ InitFocusVars
    /\ s_glyphCache = <<>>
    /\ glyphLog = {}
    /\ lastGlyph = [character |-> 0, monospace |-> FALSE, fontSize |-> 0, id |-> 0]
    /\ nLookups = 0
    /\ s_initialized = FALSE
    /\ fontLoadTried = FALSE
    /\ unloadedFaceUsed = FALSE
    /\ textArgs \in [text : Texts, monospace : BOOLEAN, fontSize : TextSizes, x : TextXArgs]
    /\ measured = NotMeasured
    /\ drawn = NotDrawn
    /\ currFb = [i \in 0..(FramebufferWidth * FramebufferHeight - 1) |-> ColorFrame]
    /\ oobWrite = FALSE
    /\ prevFb = currFb
    /\ lastCall = NoCall
    /\ nCalls = 0

\* Renderer::init(): FontManager::initialize(); the shared font loads or does not
FontInitialize ==
    /\ pc # "crashed"
    /\ \E loaded \in BOOLEAN : s_initialized' = initialize(s_initialized, loaded)
    /\ fontLoadTried' = TRUE
    /\ UNCHANGED <<s_glyphCache, glyphLog, lastGlyph, nLookups, unloadedFaceUsed,
                   textArgs, measured, drawn, renderVars, navVars, focusVars>>

\* getTextDimensions(text, monospace, fontSize)
MeasureText ==
    /\ pc # "crashed" /\ fontLoadTried /\ ~measured.done
    /\ \E ub \in UnloadedOutcomes :
          LET r == getTextDimensions(s_glyphCache, FontFace(s_initialized, ub),
                                     textArgs.text, textArgs.monospace, textArgs.fontSize)
          IN  /\ s_glyphCache' = r.cache
              /\ unloadedFaceUsed' = (unloadedFaceUsed \/ r.unloaded)
              /\ measured' = [done |-> ~r.fault, width |-> r.maxWidth, height |-> r.height]
              /\ pc' = IF r.fault THEN "crashed" ELSE pc
    /\ UNCHANGED <<glyphLog, lastGlyph, nLookups, s_initialized, fontLoadTried,
                   textArgs, drawn, renderVars, focusVars>>
    /\ UNCHANGED <<m_guiStack, guiLife, m_root, m_shouldClose, s_instance, gui,
                   frameSteps, createUICalls, layoutCalls, updateCalls, updateGuiCalls,
                   lastNav, uaf, nFrames, closeFrame>>

\* drawString(text, monospace, x, 0, fontSize, ColorText)
DrawText ==
    /\ pc # "crashed" /\ fontLoadTried /\ ~drawn.done
    /\ \E ub \in UnloadedOutcomes :
          LET r == drawString(Surface(currFb, oobWrite), s_glyphCache,
                              FontFace(s_initialized, ub), textArgs.text,
                              textArgs.monospace, textArgs.x, 0, textArgs.fontSize,
                              ColorText)
          IN  /\ s_glyphCache' = r.cache
              /\ unloadedFaceUsed' = (unloadedFaceUsed \/ r.unloaded)
              /\ drawn' = [done |-> ~r.fault, reach |-> r.reach]
              /\ currFb' = r.st.fb
              /\ oobWrite' = r.st.oob
              /\ pc' = IF r.fault THEN "crashed" ELSE pc
    /\ prevFb' = currFb
    /\ UNCHANGED <<glyphLog, lastGlyph, nLookups, s_initialized, fontLoadTried,
                   textArgs, measured, lastCall, nCalls, focusVars>>
    /\ UNCHANGED <<m_guiStack, guiLife, m_root, m_shouldClose, s_instance, gui,
                   frameSteps, createUICalls, layoutCalls, updateCalls, updateGuiCalls,
                   lastNav, uaf, nFrames, closeFrame>>

NextText == FontInitialize \/ MeasureText \/ DrawText

SpecText == InitText /\ [][NextText]_vars

----------------------------------------------------------------------------
(* Claims about the font and text, under SpecText *)

\* a Glyph with a null bitmap and zero width and height
EmptyGlyph(glyph) == ~glyph.hasBmp /\ glyph.width = 0 /\ glyph.height = 0

\* C11: while the font has failed to load (initialize() has run and
\* isInitialized() is false), every glyph lookup that drawString and
\* getTextDimensions make yields an empty glyph, the unloaded font face is never
\* used, nothing faults, and drawing writes no pixel.
C11_UnloadedFontGivesEmptyGlyphs ==
    (fontLoadTried /\ ~s_initialized) =>
        /\ ~unloadedFaceUsed
        /\ pc # "crashed"
        /\ \A key \in DOMAIN s_glyphCache : EmptyGlyph(s_glyphCache[key])
        /\ currFb = prevFb

RECURSIVE MaxOf(_)
MaxOf(seq) == IF seq = <<>> THEN 0 ELSE Max2(Head(seq), MaxOf(Tail(seq)))

\* C14 (width part): for every text, style, size and draw origin x, the width
\* getTextDimensions returns equals the largest distance from x that
\* drawString's cursor reaches on a line of the text.
C14_MeasuredWidthIsDrawnWidth ==
    (measured.done /\ drawn.done /\ s_initialized /\ ~unloadedFaceUsed) =>
        measured.width = MaxOf(drawn.reach)

----------------------------------------------------------------------------
(* One Screen's tree: built in createUI, laid out by updateGui, focused, drawn *)

\* the boundaries the application sets
BoundaryArgs == {[x |-> 1, y |-> 2, w |-> 3, h |-> 4]}

\* the surface the host hands out for the Screen's frames. currFb holds its
\* first FramebufferWidth x FramebufferHeight cells; with the logical layer as
\* area the cells beyond them are painted and not kept.
TreeSurface == [i \in 0..(FramebufferWidth * FramebufferHeight - 1) |-> ColorFrame]

\* the highlight of Element::frame painted for boundaries b and height h
HighlightPaint(p, b, h) ==
    drawRectOn(p, b.x - 2, b.y - 2, b.w + 4, h + 4, ColorHighlight)

\* the surfaces and caches the Screen's painting can meet: from set, whatever
\* OverlayFrame::draw and the highlight of an item make of them, the item's
\* boundaries as constructed or as set; boundaries from layout lie at x = 20
\* and beyond, off the cells kept
RECURSIVE PaintedFrom(_)
PaintedFrom(set) ==
    LET more == set
                \cup {OverlayFramePaint(p, area, FrameTitle, FrameSubtitle) :
                          p \in set, area \in LayoutAreas}
                \cup {HighlightPaint(p, b, h) :
                          p \in set, b \in BoundaryArgs \cup {NoBounds}, h \in ItemHeights}
    IN  IF more = set THEN set ELSE PaintedFrom(more)

\* OverlayFrame::draw of the Screen's frame, worked out once for every surface
\* and cache it can meet
OverlayFramePainted ==
    [p \in PaintedFrom({Painted(TreeSurface, FALSE, <<>>)}), area \in LayoutAreas |->
        OverlayFramePaint(p, area, FrameTitle, FrameSubtitle)]

\* createUI has constructed OverlayFrame("Title", "Sub") and a List, whose
\* subclass may hold any scroll offset; the host has handed out the surface
InitTree ==
    /\ InitNav
    /\ InitGlyphVars
    /\ currFb = TreeSurface
    /\ oobWrite = FALSE
    /\ prevFb = <<>>
    /\ lastCall = NoCall
    /\ nCalls = 0
    /\ m_items = <<>>
    /\ m_focused = [e \in Elements |-> FALSE]
    /\ m_focusedElement = 0
    /\ lastFocus = [element |-> 0, direction |-> "None", old |-> 0]
    /\ nFocusCalls = 0
    /\ m_contentElement = 0
    /\ m_scrollOffset \in ScrollOffsets
    /\ itemHeight = [e \in Elements |-> 0]
    /\ m_isItem = [e \in Elements |-> FALSE]
    /\ bounds = [e \in Elements |-> NoBounds]
    /\ drawLog = <<>>
    /\ treePc = "createUI"
    /\ layoutArea \in LayoutAreas
    /\ elemLife = [e \in Elements |-> IF e \in {FrameElement, ListElement}
                                     THEN "alive" ELSE "free"]
    /\ m_parent = [e \in Elements |-> 0]
    /\ everInTree = {}
    /\ lastInvalidate = NoInvalidate
    /\ nSetBoundaries = 0
    /\ nFrameCalls = 0

\* in createUI: list->addItem(new Item), an item that declares its height and
\* whether it is selectable
TreeAddItem ==
    /\ treePc = "createUI"
    /\ Len(m_items) < MaxItems
    /\ LET item == ListElement + Len(m_items) + 1
       IN  /\ m_items' = addItem(m_items, item)
           /\ elemLife' = [elemLife EXCEPT ![item] = "alive"]
           /\ \E height \in ItemHeights : itemHeight' = [itemHeight EXCEPT ![item] = height]
           /\ \E selectable \in BOOLEAN : m_isItem' = [m_isItem EXCEPT ![item] = selectable]
           /\ everInTree' = IF m_contentElement = ListElement
                            THEN everInTree \cup {item} ELSE everInTree
    /\ UNCHANGED <<m_focused, m_focusedElement, lastFocus, nFocusCalls, m_contentElement,
                   m_scrollOffset, bounds, drawLog, treePc, layoutArea, m_parent,
                   lastInvalidate, nSetBoundaries, nFrameCalls, renderVars, navVars, glyphVars>>

\* in createUI: frame->setContent(list)
TreeSetContent ==
    /\ treePc = "createUI"
    /\ m_contentElement = 0
    /\ m_contentElement' = setContent(m_contentElement, ListElement)
    /\ everInTree' = everInTree \cup {ListElement} \cup {m_items[i] : i \in 1..Len(m_items)}
    /\ UNCHANGED <<m_items, m_focused, m_focusedElement, lastFocus, nFocusCalls,
                   m_scrollOffset, itemHeight, m_isItem, bounds, drawLog, treePc,
                   layoutArea, elemLife, m_parent, lastInvalidate, nSetBoundaries, nFrameCalls, renderVars, navVars,
                   glyphVars>>

\* Gui::updateGui once createUI returns the frame: m_root = frame;
\* m_root->layout(0, 0, cfg::FramebufferWidth, cfg::FramebufferHeight)
TreeUpdateGui ==
    /\ treePc = "createUI"
    /\ bounds' = OverlayFrameLayout(bounds, m_contentElement, m_items, itemHeight,
                                    m_scrollOffset, 0, 0, layoutArea.w, layoutArea.h)
    /\ treePc' = "built"
    /\ UNCHANGED <<m_items, m_focused, m_focusedElement, lastFocus, nFocusCalls,
                   m_contentElement, m_scrollOffset, itemHeight, m_isItem, drawLog,
                   layoutArea, elemLife, m_parent, everInTree, lastInvalidate, nSetBoundaries, nFrameCalls,
                   renderVars, navVars, glyphVars>>

\* gui->requestFocus(element, FocusDirection::None) on the laid-out tree
TreeRequestFocus ==
    /\ treePc = "built"
    /\ nFocusCalls + nSetBoundaries + nFrameCalls < MaxTreeFocusCalls
    /\ \E element \in TreeElements(m_items) \cup {0} :
          LET fs == requestFocus(FocusState(m_focused, m_focusedElement), element, "None")
          IN  /\ m_focused' = fs.m_focused
              /\ m_focusedElement' = fs.m_focusedElement
              /\ lastFocus' = [element |-> element, direction |-> "None",
                               old |-> m_focusedElement]
    /\ nFocusCalls' = nFocusCalls + 1
    /\ UNCHANGED <<m_items, treeVars, renderVars, navVars, glyphVars>>

\* the surface and the cache after a painting that left p
Show(p) ==
    /\ currFb' = p.fb
    /\ oobWrite' = p.oob
    /\ s_glyphCache' = p.cache

\* gui->draw(renderer), every frame: the frame paints itself, then the items
\* draw, each as its class has it
TreeDraw ==
    /\ treePc \in {"built", "drawn"}
    /\ drawLog' = GuiDrawCalls(FrameElement, layoutArea, m_contentElement, m_items)
    /\ Show(OverlayFramePainted[Painted(currFb, oobWrite, s_glyphCache), layoutArea])
    /\ treePc' = "drawn"
    /\ UNCHANGED <<m_items, m_focused, m_focusedElement, lastFocus, nFocusCalls,
                   m_contentElement, m_scrollOffset, itemHeight, m_isItem, bounds,
                   layoutArea, elemLife, m_parent, everInTree, lastInvalidate,
                   nSetBoundaries, nFrameCalls, prevFb, lastCall, nCalls, navVars, glyphLog,
                   lastGlyph, nLookups, s_initialized, fontLoadTried,
                   unloadedFaceUsed, textArgs, measured, drawn>>

\* element->setBoundaries(x, y, w, h), called by the application on any Element
\* it holds, before or after layout
TreeSetBoundaries ==
    /\ treePc \in {"createUI", "built", "drawn"}
    /\ nFocusCalls + nSetBoundaries + nFrameCalls < MaxTreeFocusCalls
    /\ \E e \in {e \in Elements : elemLife[e] = "alive"}, a \in BoundaryArgs :
          bounds' = setBoundaries(bounds, e, a.x, a.y, a.w, a.h)
    /\ nSetBoundaries' = nSetBoundaries + 1
    /\ UNCHANGED <<m_items, m_focused, m_focusedElement, lastFocus, nFocusCalls,
                   m_contentElement, m_scrollOffset, itemHeight, m_isItem, drawLog,
                   treePc, layoutArea, elemLife, m_parent, everInTree, lastInvalidate,
                   nFrameCalls, renderVars, navVars, glyphVars>>

\* what this->draw(renderer) of Element e calls: OverlayFrame::draw, List::draw
\* or the item's own draw
ElementDrawCalls(log, e, area, content, items) ==
    IF e = FrameElement THEN OverlayFrameDrawCalls(log, area, content, items)
    ELSE IF e = ListElement THEN ListDraw(log, items)
    ELSE Append(log, ItemDraw(e))

\* what this->draw(renderer) of Element e paints: the frame paints itself,
\* the List and the items paint nothing
ElementPaint(p, e, area) ==
    IF e = FrameElement THEN OverlayFramePainted[p, area] ELSE p

\* element->frame(renderer), called by the application on any Element it holds:
\* the highlight if the Element is focused and selectable, then its draw()
TreeFrame ==
    /\ treePc \in {"built", "drawn"}
    /\ nFocusCalls + nSetBoundaries + nFrameCalls < MaxTreeFocusCalls
    /\ \E e \in {e \in Elements : elemLife[e] = "alive"} :
          /\ Show(ElementPaint(
                      IF m_focused[e] /\ m_isItem[e]
                      THEN HighlightPaint(Painted(currFb, oobWrite, s_glyphCache),
                                          bounds[e], getHeight(bounds, itemHeight, e))
                      ELSE Painted(currFb, oobWrite, s_glyphCache),
                      e, layoutArea))
          /\ drawLog' = ElementDrawCalls(
                            IF m_focused[e] /\ m_isItem[e]
                            THEN Append(drawLog, HighlightCall(bounds, itemHeight, e))
                            ELSE drawLog,
                            e, layoutArea, m_contentElement, m_items)
    /\ nFrameCalls' = nFrameCalls + 1
    /\ UNCHANGED <<m_items, m_focused, m_focusedElement, lastFocus, nFocusCalls,
                   m_contentElement, m_scrollOffset, itemHeight, m_isItem, bounds,
                   treePc, layoutArea, elemLife, m_parent, everInTree, lastInvalidate,
                   nSetBoundaries, prevFb, lastCall, nCalls, navVars, glyphLog,
                   lastGlyph, nLookups, s_initialized, fontLoadTried,
                   unloadedFaceUsed, textArgs, measured, drawn>>

NextTree ==
    \/ TreeFrame
    \/ TreeSetBoundaries
    \/ TreeAddItem
    \/ TreeSetContent
    \/ TreeUpdateGui
    \/ TreeRequestFocus
    \/ TreeDraw

SpecTree == InitTree /\ [][NextTree]_vars

----------------------------------------------------------------------------
(* Claims about layout and drawing of the tree, under SpecTree *)

\* the Screen of the end-to-end case has been drawn: a frame whose content is a
\* list of three items, default scroll offset, laid out against 1280 x 720, its
\* boundaries left to layout
ThreeItemScreenDrawn ==
    /\ treePc = "drawn"
    /\ m_contentElement = ListElement /\ Len(m_items) = 3
    /\ m_scrollOffset = 0
    /\ layoutArea = [w |-> LayerMaxWidth, h |-> LayerMaxHeight]
    /\ nSetBoundaries = 0

\* the header calls of the end-to-end case: title at (20,50) size 32, subtitle at
\* (20,85) size 15
HeaderDrawn ==
    /\ Len(drawLog) >= 3
    /\ drawLog[2].op = "drawString" /\ drawLog[2].text = FrameTitle
    /\ drawLog[2].x = 20 /\ drawLog[2].y = 50 /\ drawLog[2].size = 32
    /\ drawLog[3].op = "drawString" /\ drawLog[3].text = FrameSubtitle
    /\ drawLog[3].x = 20 /\ drawLog[3].y = 85 /\ drawLog[3].size = 15

\* C12 as stated: ... and the first list item's bounds start at (40,100).
C12_FirstItemAt40 ==
    ThreeItemScreenDrawn =>
        /\ HeaderDrawn
        /\ bounds[m_items[1]].x = 40 /\ bounds[m_items[1]].y = 100

\* C12 (amended): for a Screen whose tree is an OverlayFrame containing a List
\* of three fixed-height items, after the first updateGui() lays it out against
\* 1280x720 and the Screen is drawn, the title is drawn at (20,50) with size 32,
\* the subtitle at (20,85) with size 15, and the first list item's bounds start
\* at (20,100).
C12_FirstItemAt20 ==
    ThreeItemScreenDrawn =>
        /\ HeaderDrawn
        /\ bounds[m_items[1]].x = 20 /\ bounds[m_items[1]].y = 100

\* the end-to-end Screen, drawn, its list inset by the frame's margins
C12_Witness ==
    /\ ThreeItemScreenDrawn
    /\ HeaderDrawn
    /\ bounds[ListElement] = [x |-> 20, y |-> 100, w |-> 1240, h |-> 570]
    /\ bounds[m_items[1]] = [x |-> 20, y |-> 100, w |-> 1240, h |-> itemHeight[m_items[1]]]

\* h1 + ... + hn of the first n items
RECURSIVE SumHeights(_, _, _)
SumHeights(items, heights, n) ==
    IF n = 0 THEN 0 ELSE SumHeights(items, heights, n - 1) + heights[items[n]]

\* C13: for a List laid out at (x, y) with width w, items of declared heights
\* h1..hn and any scroll offset s, item i gets x-position x, width w, height hi
\* and y-position y - s + h1 + ... + h(i-1).
C13_ItemsStackedFromScrolledOrigin ==
    (treePc \in {"built", "drawn"} /\ m_contentElement = ListElement) =>
        \A i \in 1..Len(m_items) :
            LET item == m_items[i]
            IN  /\ bounds[item].x = bounds[ListElement].x
                /\ bounds[item].w = bounds[ListElement].w
                /\ bounds[item].h = itemHeight[item]
                /\ bounds[item].y = bounds[ListElement].y - m_scrollOffset
                                    + SumHeights(m_items, itemHeight, i - 1)

\* the Elements Gui::draw visits whose own draw() is one call of the log
DrawnItems ==
    IF m_contentElement = 0 THEN {}
    ELSE IF m_contentElement = ListElement THEN {m_items[i] : i \in 1..Len(m_items)}
    ELSE {m_contentElement}

\* C17: in every frame the Screen paints its tree through frame(): an element
\* that is focused and selectable gets the highlight rectangle, its bounds grown
\* by 2px on every side, right before its draw(); for every other element only
\* draw() runs.
C17_TreePaintedThroughFrame ==
    treePc = "drawn" =>
        \A e \in DrawnItems :
            \E i \in 1..Len(drawLog) :
                /\ drawLog[i] = ItemDraw(e)
                /\ (m_focused[e] /\ m_isItem[e]) =>
                       i > 1 /\ SubSeq(drawLog, i - 1, i)
                                = frame(<<>>, bounds, itemHeight, m_focused, m_isItem, e)
                /\ ~(m_focused[e] /\ m_isItem[e]) =>
                       \A j \in 1..Len(drawLog) :
                           ~(drawLog[j].elem = e /\ drawLog[j].op = "drawRect")

----------------------------------------------------------------------------
(* One Screen's tree: attached piece by piece in createUI, invalidated,
   destroyed with the Screen *)

InitOwn ==
    /\ InitNav
    /\ InitFocusVars
    /\ InitGlyphVars
    /\ currFb = <<>>
    /\ oobWrite = FALSE
    /\ prevFb = <<>>
    /\ lastCall = NoCall
    /\ nCalls = 0

\* the Elements not constructed yet
FreeElements(life) == {e \in Elements : life[e] = "free"}

\* new Item(): the next Element comes to life
NewElement(life) ==
    CHOOSE e \in FreeElements(life) : \A other \in FreeElements(life) : e <= other

\* the Elements in the subtree of e: a list brings its items
Subtree(items, e) ==
    IF e = ListElement THEN {e} \cup {items[i] : i \in 1..Len(items)} ELSE {e}

\* in createUI: list->addItem(new Item)
OwnAddItem ==
    /\ treePc = "createUI"
    /\ FreeElements(elemLife) # {}
    /\ LET item == NewElement(elemLife)
       IN  /\ m_items' = addItem(m_items, item)
           /\ elemLife' = [elemLife EXCEPT ![item] = "alive"]
           /\ everInTree' = IF m_contentElement = ListElement
                            THEN everInTree \cup {item} ELSE everInTree
    /\ UNCHANGED <<m_focused, m_focusedElement, lastFocus, nFocusCalls, m_contentElement,
                   m_scrollOffset, itemHeight, m_isItem, bounds, drawLog, treePc,
                   layoutArea, m_parent, lastInvalidate, nSetBoundaries, nFrameCalls, renderVars, navVars, glyphVars>>

\* in createUI: frame->setContent(list), or frame->setContent(new Item), also
\* when the frame has a content already
OwnSetContent ==
    /\ treePc = "createUI"
    /\ \/ /\ m_contentElement # ListElement
          /\ m_contentElement' = setContent(m_contentElement, ListElement)
          /\ everInTree' = everInTree \cup Subtree(m_items, ListElement)
          /\ UNCHANGED elemLife
       \/ /\ FreeElements(elemLife) # {}
          /\ LET item == NewElement(elemLife)
             IN  /\ m_contentElement' = setContent(m_contentElement, item)
                 /\ elemLife' = [elemLife EXCEPT ![item] = "alive"]
                 /\ everInTree' = everInTree \cup {item}
    /\ UNCHANGED <<m_items, m_focused, m_focusedElement, lastFocus, nFocusCalls,
                   m_scrollOffset, itemHeight, m_isItem, bounds, drawLog, treePc,
                   layoutArea, m_parent, lastInvalidate, nSetBoundaries, nFrameCalls, renderVars, navVars, glyphVars>>

\* Gui::updateGui once createUI returns the frame
OwnUpdateGui ==
    /\ treePc = "createUI"
    /\ bounds' = OverlayFrameLayout(bounds, m_contentElement, m_items, itemHeight,
                                    m_scrollOffset, 0, 0, layoutArea.w, layoutArea.h)
    /\ treePc' = "built"
    /\ UNCHANGED <<m_items, m_focused, m_focusedElement, lastFocus, nFocusCalls,
                   m_contentElement, m_scrollOffset, itemHeight, m_isItem, drawLog,
                   layoutArea, elemLife, m_parent, everInTree, lastInvalidate, nSetBoundaries, nFrameCalls,
                   renderVars, navVars, glyphVars>>

\* element->setParent(parent), called by the application on any Element it
\* holds, with any Element it holds or nullptr
OwnSetParent ==
    /\ treePc \in {"createUI", "built"}
    /\ \E e \in {e \in Elements : elemLife[e] = "alive"},
          p \in {e \in Elements : elemLife[e] = "alive"} \cup {0} :
          /\ m_parent[e] # 0 \/ Cardinality({c \in Elements : m_parent[c] # 0}) < MaxParented
          /\ m_parent' = setParent(m_parent, e, p)
    /\ UNCHANGED <<m_items, m_focused, m_focusedElement, lastFocus, nFocusCalls,
                   m_contentElement, m_scrollOffset, itemHeight, m_isItem, bounds,
                   drawLog, treePc, layoutArea, elemLife, everInTree, lastInvalidate,
                   nSetBoundaries, nFrameCalls, renderVars, navVars, glyphVars>>

\* what becomes of a call that recurses without end: the build keeps the calls
\* on the stack until it is exhausted, or turns the tail call into a loop that
\* runs for ever
EndlessOutcomes == {"crashed", "hung"}

\* element->invalidate() on an Element of the built Screen
OwnInvalidate ==
    /\ treePc = "built"
    /\ \E e \in {e \in Elements : elemLife[e] = "alive"} :
          IF Endless(m_parent, e)
          THEN /\ treePc' \in EndlessOutcomes
               /\ UNCHANGED lastInvalidate
          ELSE /\ lastInvalidate' = [element |-> e, reached |-> invalidate(m_parent, e),
                                     ancestors |-> Ancestors(m_contentElement, m_items, e)]
               /\ UNCHANGED treePc
    /\ UNCHANGED <<m_items, m_focused, m_focusedElement, lastFocus, nFocusCalls,
                   m_contentElement, m_scrollOffset, itemHeight, m_isItem, bounds,
                   drawLog, layoutArea, elemLife, m_parent, everInTree,
                   nSetBoundaries, nFrameCalls, renderVars, navVars, glyphVars>>

\* delete on the Screen: ~Gui
OwnDeleteGui ==
    /\ treePc = "built"
    /\ elemLife' = GuiDestroy(elemLife, FrameElement, m_contentElement, m_items)
    /\ treePc' = "destroyed"
    /\ UNCHANGED <<m_items, m_focused, m_focusedElement, lastFocus, nFocusCalls,
                   m_contentElement, m_scrollOffset, itemHeight, m_isItem, bounds,
                   drawLog, layoutArea, m_parent, everInTree, lastInvalidate, nSetBoundaries, nFrameCalls,
                   renderVars, navVars, glyphVars>>

NextOwn ==
    \/ OwnSetParent
    \/ OwnAddItem
    \/ OwnSetContent
    \/ OwnUpdateGui
    \/ OwnInvalidate
    \/ OwnDeleteGui

SpecOwn == InitOwn /\ [][NextOwn]_vars

----------------------------------------------------------------------------
(* Claims about ownership and invalidation, under SpecOwn *)

\* C19: whatever addItem and setContent calls build the Screen's tree, setContent
\* on a frame that has a content included, every Element ever attached under
\* the frame is alive as long as the Screen is, and destroyed exactly once when
\* the Screen is destroyed.
C19_AttachedDestroyedOnceWithOwner ==
    \A e \in everInTree :
        elemLife[e] = IF treePc = "destroyed" THEN "destroyed" ELSE "alive"

\* C20: invalidate() on an Element of a tree built with addItem and setContent
\* reaches each of its ancestors, nearest first, up to the root, and stops there.
C20_InvalidateReachesAncestors ==
    lastInvalidate.element # 0 => lastInvalidate.reached = lastInvalidate.ancestors

----------------------------------------------------------------------------
(* Claims about Screens replaced or covered while the driver runs, under Spec *)

\* C21: within a driver iteration no destroyed Screen is used: whatever pushGui
\* or swapTo calls the hooks make, the Screen Overlay::loop is about to draw is
\* alive and is the top of the stack, no library code runs on a destroyed
\* Screen, and nothing faults.
C21_NoDestroyedScreenUsed ==
    /\ ~uaf
    /\ pc # "crashed"
    /\ pc = "draw" => guiLife[gui] = "alive" /\ gui = getCurrentGui(m_guiStack)

\* the Screens of the stack that lie beneath its top
Covered(stack) == {stack[i] : i \in 1..(Len(stack) - 1)}

\* C22: between construction and destruction of the Overlay no step makes the
\* navigation stack shallower or empties a non-empty stack, and a Screen that is
\* covered stays covered: it does not become the current Screen again.
C22_DepthNeverDecreases ==
    [][pc' # "done" =>
          /\ Len(m_guiStack') >= Len(m_guiStack)
          /\ m_guiStack # <<>> => m_guiStack' # <<>>
          /\ Covered(m_guiStack) \subseteq Covered(m_guiStack')]_vars

\* the driver has left its loop with a covered Screen still beneath the top,
\* after a changeGui replaced the Screen above it
C22_Witness ==
    /\ pc = "exit"
    /\ Len(m_guiStack) >= 2
    /\ lastNav.op = "swapTo" /\ Len(lastNav.stack) = Len(m_guiStack)
    /\ Covered(m_guiStack) = Covered(lastNav.stack)
    /\ \A g \in Covered(m_guiStack) : guiLife[g] = "alive"

====
